---- MODULE Spec2Model ----
(***************************************************************************)
(* Model of subversion/svn/shelve-cmd.c: the command-line front end of the *)
(* shelve feature (svn shelve, svn unshelve, svn shelves).                 *)
(*                                                                         *)
(* A state is the shelf store of one working copy together with the last   *)
(* command-line invocation: its arguments and options, the calls it made   *)
(* into the client library and the lines it printed, in program order, and *)
(* the error it returned.  Each subcommand handler is one action.  The     *)
(* client library (svn_client_shelve and friends) is outside the file; its *)
(* answers are nondeterministic, so a handler is an operator that yields   *)
(* the set of outcomes the library's answers allow.                        *)
(*                                                                         *)
(* Strings are tuples of one-character strings.  Arguments are valid,      *)
(* canonical text; writes to stdout and the resolution of the current      *)
(* directory succeed.                                                      *)
(***************************************************************************)
EXTENDS Integers, Sequences, FiniteSets, TLC

VARIABLES pc, store, store0, cmd, os_args, opt_state, ctx, trace, err

vars == <<pc, store, store0, cmd, os_args, opt_state, ctx, trace, err>>

(* ------------------------------ bounds -------------------------------- *)

\* most positional arguments left on the command line after the subcommand
MaxArgs == 2
\* latest modification time the store's clock hands out
MaxTime == 2

(* ------------------------------ strings ------------------------------- *)

\* the extension of a shelf's patch file
PatchSuffix == <<".", "p", "a", "t", "c", "h">>

\* strlen(".patch"), the literal of name_of_youngest
SuffixLen == 6

NameA == <<"a">>
NameB == <<"b">>
\* a shelf whose own name ends in ".patch"
NameAP == <<"a", ".", "p", "a", "t", "c", "h">>
UrlArg == <<"u", ":", "/", "/", "h">>

\* names a shelf can be stored under
ShelfNames == {NameA, NameB, NameAP}

\* the words a command line is made of
ArgVals == ShelfNames \cup {UrlArg}

SeqsUpTo(S, n) == UNION {[1..k -> S] : k \in 0..n}

Min(a, b) == IF a < b THEN a ELSE b

\* s has t as a contiguous part
Contains(s, t) ==
  \E i \in 1..(Len(s) - Len(t) + 1) : SubSeq(s, i, i + Len(t) - 1) = t

\* apr_pstrndup: the first n characters of s, all of s when it is shorter
apr_pstrndup(s, n) == SubSeq(s, 1, Min(n, Len(s)))

(* ------------------------------ errors -------------------------------- *)

Err(code, msg) == [code |-> code, msg |-> msg]

SVN_NO_ERROR == Err("SVN_NO_ERROR", "")
ArgParsingError == Err("SVN_ERR_CL_ARG_PARSING_ERROR", "")
InsufficientArgs == Err("SVN_ERR_CL_INSUFFICIENT_ARGS", "")
NoShelvesFound == Err("SVN_ERR_CL_INSUFFICIENT_ARGS", "No shelved changes found")
NotLocalPath == Err("SVN_ERR_CL_ARG_PARSING_ERROR", "is not a local path")
\* whatever a failing call into the shelf store reports
StoreError == Err("STORE_ERROR", "")

(* ------------------------------ events -------------------------------- *)

\* One entry of an invocation's trace: a call into the client library with
\* its arguments and its result, or a line written to stdout.
NoEvent ==
  [op |-> "", name |-> <<>>, targets |-> <<>>, depth |-> "", keep_local |-> FALSE,
   dry_run |-> FALSE, notify |-> FALSE, ok |-> TRUE, items |-> <<>>,
   mtime |-> 0, diffstat |-> FALSE]

ListCall(r) ==
  [NoEvent EXCEPT !.op = "svn_client_shelves_list",
                  !.ok = (r.err = SVN_NO_ERROR), !.items = r.hash]

DeleteCall(name, dry_run, notify, e) ==
  [NoEvent EXCEPT !.op = "svn_client_shelves_delete", !.name = name,
                  !.dry_run = dry_run, !.notify = notify, !.ok = (e = SVN_NO_ERROR)]

ShelveCall(name, targets, depth, keep_local, dry_run, notify, e) ==
  [NoEvent EXCEPT !.op = "svn_client_shelve", !.name = name, !.targets = targets,
                  !.depth = depth, !.keep_local = keep_local, !.dry_run = dry_run,
                  !.notify = notify, !.ok = (e = SVN_NO_ERROR)]

UnshelveCall(name, keep_local, dry_run, notify, e) ==
  [NoEvent EXCEPT !.op = "svn_client_unshelve", !.name = name,
                  !.keep_local = keep_local, !.dry_run = dry_run,
                  !.notify = notify, !.ok = (e = SVN_NO_ERROR)]

\* a listing entry: "<name> <age> mins old <size> bytes", the message line
\* and, with diffstat, the output of the diffstat tool and a blank line
PrintItem(item, diffstat) ==
  [NoEvent EXCEPT !.op = "print_item", !.name = item.key, !.mtime = item.mtime,
                  !.diffstat = diffstat]

\* "unshelving the youngest change, '<name>'"
PrintYoungest(name) == [NoEvent EXCEPT !.op = "print_youngest", !.name = name]

\* "deleted '<name>'", "shelved '<name>'", "unshelved '<name>'"
PrintDeleted(name) == [NoEvent EXCEPT !.op = "print_deleted", !.name = name]
PrintShelved(name) == [NoEvent EXCEPT !.op = "print_shelved", !.name = name]
PrintUnshelved(name) == [NoEvent EXCEPT !.op = "print_unshelved", !.name = name]

MakeLogMsgBaton == [NoEvent EXCEPT !.op = "svn_cl__make_log_msg_baton"]
CleanupLogMsg(e) ==
  [NoEvent EXCEPT !.op = "svn_cl__cleanup_log_msg", !.ok = (e = SVN_NO_ERROR)]

MutatingOps == {"svn_client_shelve", "svn_client_shelves_delete", "svn_client_unshelve"}
StoreOps == MutatingOps \cup {"svn_client_shelves_list"}
ConfirmationOps == {"print_deleted", "print_shelved", "print_unshelved"}
PrintOps == ConfirmationOps \cup {"print_item", "print_youngest"}

(* --------------------------- the shelf store -------------------------- *)

\* The store maps the file name of each shelf's patch, "<name>.patch", to
\* the modification time of that file.
KeyOf(name) == name \o PatchSuffix

Put(st, key, t) == [k \in DOMAIN st \cup {key} |-> IF k = key THEN t ELSE st[k]]
Drop(st, key) == [k \in DOMAIN st \ {key} |-> st[k]]

\* the times the store's clock can give a file written now
NewTimes(st) == {t \in 1..MaxTime : \A k \in DOMAIN st : st[k] <= t}

\* the orders in which a hash of the store's entries can be iterated
HashOrders(st) ==
  LET n == Cardinality(DOMAIN st)
  IN {[i \in 1..n |-> [key |-> f[i], mtime |-> st[f[i]]]] :
        f \in {g \in [1..n -> DOMAIN st] : \A i, j \in 1..n : i # j => g[i] # g[j]}}

\* ListShelvedChanges: an error, or the entries as an unordered hash
svn_client_shelves_list(st) ==
  {[err |-> StoreError, hash |-> <<>>]}
    \cup {[err |-> SVN_NO_ERROR, hash |-> h] : h \in HashOrders(st)}

\* CreateShelve
svn_client_shelve(name, targets, depth, keep_local, dry_run, st) ==
  {[err |-> StoreError, store |-> st]}
    \cup IF name \in ShelfNames /\ KeyOf(name) \notin DOMAIN st
         THEN {[err |-> SVN_NO_ERROR,
                store |-> IF dry_run THEN st ELSE Put(st, KeyOf(name), t)] :
                 t \in NewTimes(st)}
         ELSE {}

\* DeleteShelve
svn_client_shelves_delete(name, dry_run, st) ==
  {[err |-> StoreError, store |-> st]}
    \cup IF KeyOf(name) \in DOMAIN st
         THEN {[err |-> SVN_NO_ERROR,
                store |-> IF dry_run THEN st ELSE Drop(st, KeyOf(name))]}
         ELSE {}

\* ApplyShelve
svn_client_unshelve(name, keep_local, dry_run, st) ==
  {[err |-> StoreError, store |-> st]}
    \cup IF KeyOf(name) \in DOMAIN st
         THEN {[err |-> SVN_NO_ERROR,
                store |-> IF dry_run \/ keep_local THEN st ELSE Drop(st, KeyOf(name))]}
         ELSE {}

(* ----------------------------- the lister ----------------------------- *)

\* plausible slips: the comparison the wrong way round, and one that
\* never tells two entries apart
CompareYoungestFirst(a, b) ==
  IF a.mtime > b.mtime THEN -1 ELSE IF a.mtime < b.mtime THEN 1 ELSE 0

CompareNothing(a, b) == 0

compare_dirents_by_mtime(a, b) ==
  IF a.mtime < b.mtime THEN -1 ELSE IF a.mtime > b.mtime THEN 1 ELSE 0

\* Insert x behind the last element of the sorted s that is not greater.
RECURSIVE InsertSorted(_, _)
InsertSorted(s, x) ==
  IF Len(s) = 0 THEN <<x>>
  ELSE IF compare_dirents_by_mtime(s[Len(s)], x) <= 0 THEN Append(s, x)
  ELSE Append(InsertSorted(SubSeq(s, 1, Len(s) - 1), x), s[Len(s)])

\* svn_sort__hash(ht, compare_dirents_by_mtime): the hash's entries, taken in
\* iteration order and sorted.  Elements that compare equal keep the
\* iteration order, so over all iteration orders every result a comparison
\* sort can give is covered.
RECURSIVE svn_sort__hash(_)
svn_sort__hash(ht) ==
  IF Len(ht) = 0 THEN <<>>
  ELSE InsertSorted(svn_sort__hash(SubSeq(ht, 1, Len(ht) - 1)), ht[Len(ht)])

list_sorted_by_date(st) ==
  {[err |-> r.err,
    list |-> IF r.err = SVN_NO_ERROR
             THEN svn_sort__hash(r.hash) ELSE <<>>,
    trace |-> <<ListCall(r)>>] : r \in svn_client_shelves_list(st)}

shelves_list(st, diffstat) ==
  {[err |-> r.err,
    trace |-> r.trace \o [i \in 1..Len(r.list) |-> PrintItem(r.list[i], diffstat)]] :
     r \in list_sorted_by_date(st)}

(* ------------------------------ handlers ------------------------------ *)

Outcome(e, tr, cx, st) == [err |-> e, trace |-> tr, ctx |-> cx, store |-> st]

\* a plausible slip: the name is taken from the end of the command line
GetNameTakesLast(args) ==
  IF Len(args) < 1
  THEN [err |-> InsufficientArgs, name |-> <<>>, rest |-> args]
  ELSE [err |-> SVN_NO_ERROR, name |-> args[Len(args)],
        rest |-> SubSeq(args, 1, Len(args) - 1)]

\* svn_opt_parse_num_args(&args, os, 1) takes the next argument off the
\* command line and fails when there is none; svn_utf_cstring_to_utf8 leaves
\* the (ASCII) argument as it is.
get_name(args) ==
  IF Len(args) < 1
  THEN [err |-> InsufficientArgs, name |-> <<>>, rest |-> args]
  ELSE [err |-> SVN_NO_ERROR, name |-> args[1], rest |-> Tail(args)]

\* a plausible slip: one character too few is cut off
StripSuffixOffByOne(key) == apr_pstrndup(key, Len(key) - (SuffixLen - 1))

\* apr_pstrndup(pool, key, strlen(key) - 6), "remove '.patch'".  The length
\* is unsigned: for a key shorter than the suffix it wraps to a huge count
\* and apr_pstrndup copies the whole key.
StripSuffix(key) ==
  apr_pstrndup(key, IF Len(key) >= SuffixLen THEN Len(key) - SuffixLen ELSE Len(key))

name_of_youngest(st) ==
  {IF r.err # SVN_NO_ERROR
   THEN [err |-> r.err, name |-> <<>>, trace |-> <<ListCall(r)>>]
   ELSE IF Len(r.hash) = 0
   THEN [err |-> NoShelvesFound, name |-> <<>>, trace |-> <<ListCall(r)>>]
   ELSE LET list == svn_sort__hash(r.hash)
            youngest_item == list[Len(list)]
        IN [err |-> SVN_NO_ERROR, name |-> StripSuffix(youngest_item.key),
            trace |-> <<ListCall(r)>>] :
     r \in svn_client_shelves_list(st)}

\* the remaining arguments followed by the --targets ones
svn_cl__args_to_target_array_print_reserved(rest, known_targets) ==
  rest \o known_targets

\* "" is the canonical form of "."
svn_opt_push_implicit_dot_target(targets) ==
  IF Len(targets) = 0 THEN << <<>> >> ELSE targets

svn_path_is_url(path) == Contains(path, <<":", "/", "/">>)

svn_cl__check_targets_are_local_paths(targets) ==
  IF \E i \in 1..Len(targets) : svn_path_is_url(targets[i])
  THEN NotLocalPath ELSE SVN_NO_ERROR

\* the target without its "@<revision>" part
EatPeg(t) ==
  IF \E i \in 1..Len(t) : t[i] = "@"
  THEN SubSeq(t, 1, (CHOOSE i \in 1..Len(t) :
                       t[i] = "@" /\ \A j \in (i + 1)..Len(t) : t[j] # "@") - 1)
  ELSE t

svn_cl__eat_peg_revisions(targets) == [i \in 1..Len(targets) |-> EatPeg(targets[i])]

\* a plausible slip: the check of the remaining arguments is left out
ListBranchWithoutArgCheck(args, opt, cx, st) ==
  {Outcome(r.err, r.trace, cx, st) : r \in shelves_list(st, ~opt.quiet)}

\* svn_cl__shelve, the list branch; svn_cl__unshelve has the same one
ListBranch(args, opt, cx, st) ==
  IF Len(args) > 0
  THEN {Outcome(ArgParsingError, <<>>, cx, st)}
  ELSE {Outcome(r.err, r.trace, cx, st) : r \in shelves_list(st, ~opt.quiet)}

\* a plausible slip: the shelf is deleted for real on a dry run
RemoveBranchIgnoresDryRun(name, rest, opt, cx, st) ==
  IF Len(rest) > 0
  THEN {Outcome(ArgParsingError, <<>>, cx, st)}
  ELSE {Outcome(r.err,
                <<DeleteCall(name, FALSE, cx.notify_func2, r.err)>>
                  \o (IF r.err = SVN_NO_ERROR /\ ~opt.quiet
                      THEN <<PrintDeleted(name)>> ELSE <<>>),
                cx, r.store) :
          r \in svn_client_shelves_delete(name, FALSE, st)}

\* a plausible slip: the confirmation is printed whatever the store answers
RemoveBranchAlwaysConfirms(name, rest, opt, cx, st) ==
  IF Len(rest) > 0
  THEN {Outcome(ArgParsingError, <<>>, cx, st)}
  ELSE {Outcome(r.err,
                <<DeleteCall(name, opt.dry_run, cx.notify_func2, r.err)>>
                  \o (IF ~opt.quiet THEN <<PrintDeleted(name)>> ELSE <<>>),
                cx, r.store) :
          r \in svn_client_shelves_delete(name, opt.dry_run, st)}

\* svn_cl__shelve, the --remove branch
RemoveBranch(name, rest, opt, cx, st) ==
  IF Len(rest) > 0
  THEN {Outcome(ArgParsingError, <<>>, cx, st)}
  ELSE {Outcome(r.err,
                <<DeleteCall(name, opt.dry_run, cx.notify_func2, r.err)>>
                  \o (IF r.err = SVN_NO_ERROR /\ ~opt.quiet
                      THEN <<PrintDeleted(name)>> ELSE <<>>),
                cx, r.store) :
          r \in svn_client_shelves_delete(name, opt.dry_run, st)}

\* a plausible slip: SVN_ERR(err) right after svn_client_shelve, so that the
\* log message baton is cleaned up only when the call succeeded
CreateBranchLeaksBatonOnError(name, rest, opt, cx, st) ==
  LET parsed == svn_cl__args_to_target_array_print_reserved(rest, opt.targets)
      targets == svn_opt_push_implicit_dot_target(parsed)
      local == svn_cl__check_targets_are_local_paths(targets)
      depth == IF opt.depth = "unknown" THEN "infinity" ELSE opt.depth
      pegless == svn_cl__eat_peg_revisions(targets)
  IN IF Len(targets) = 0
     THEN {Outcome(InsufficientArgs, <<>>, cx, st)}
     ELSE IF local # SVN_NO_ERROR
     THEN {Outcome(local, <<>>, cx, st)}
     ELSE {Outcome(r.err,
                   (IF cx.log_msg_func3 THEN <<MakeLogMsgBaton>> ELSE <<>>)
                     \o <<ShelveCall(name, pegless, depth, opt.keep_local,
                                     opt.dry_run, cx.notify_func2, r.err)>>
                     \o (IF cx.log_msg_func3 /\ r.err = SVN_NO_ERROR
                         THEN <<CleanupLogMsg(r.err)>> ELSE <<>>)
                     \o (IF r.err = SVN_NO_ERROR /\ ~opt.quiet
                         THEN <<PrintShelved(name)>> ELSE <<>>),
                   cx, r.store) :
             r \in svn_client_shelve(name, pegless, depth, opt.keep_local,
                                     opt.dry_run, st)}

\* a plausible slip: the targets are not checked for URLs
CreateBranchSkipsLocalCheck(name, rest, opt, cx, st) ==
  LET parsed == svn_cl__args_to_target_array_print_reserved(rest, opt.targets)
      targets == svn_opt_push_implicit_dot_target(parsed)
      depth == IF opt.depth = "unknown" THEN "infinity" ELSE opt.depth
      pegless == svn_cl__eat_peg_revisions(targets)
  IN IF Len(targets) = 0
     THEN {Outcome(InsufficientArgs, <<>>, cx, st)}
     ELSE {Outcome(r.err,
                   (IF cx.log_msg_func3 THEN <<MakeLogMsgBaton>> ELSE <<>>)
                     \o <<ShelveCall(name, pegless, depth, opt.keep_local,
                                     opt.dry_run, cx.notify_func2, r.err)>>
                     \o (IF cx.log_msg_func3 THEN <<CleanupLogMsg(r.err)>> ELSE <<>>)
                     \o (IF r.err = SVN_NO_ERROR /\ ~opt.quiet
                         THEN <<PrintShelved(name)>> ELSE <<>>),
                   cx, r.store) :
             r \in svn_client_shelve(name, pegless, depth, opt.keep_local,
                                     opt.dry_run, st)}

\* a plausible slip: the confirmation does not look at --quiet
CreateBranchConfirmsWhenQuiet(name, rest, opt, cx, st) ==
  LET parsed == svn_cl__args_to_target_array_print_reserved(rest, opt.targets)
      targets == svn_opt_push_implicit_dot_target(parsed)
      local == svn_cl__check_targets_are_local_paths(targets)
      depth == IF opt.depth = "unknown" THEN "infinity" ELSE opt.depth
      pegless == svn_cl__eat_peg_revisions(targets)
  IN IF Len(targets) = 0
     THEN {Outcome(InsufficientArgs, <<>>, cx, st)}
     ELSE IF local # SVN_NO_ERROR
     THEN {Outcome(local, <<>>, cx, st)}
     ELSE {Outcome(r.err,
                   (IF cx.log_msg_func3 THEN <<MakeLogMsgBaton>> ELSE <<>>)
                     \o <<ShelveCall(name, pegless, depth, opt.keep_local,
                                     opt.dry_run, cx.notify_func2, r.err)>>
                     \o (IF cx.log_msg_func3 THEN <<CleanupLogMsg(r.err)>> ELSE <<>>)
                     \o (IF r.err = SVN_NO_ERROR
                         THEN <<PrintShelved(name)>> ELSE <<>>),
                   cx, r.store) :
             r \in svn_client_shelve(name, pegless, depth, opt.keep_local,
                                     opt.dry_run, st)}

\* svn_cl__shelve, the rest: shelve the targets
CreateBranch(name, rest, opt, cx, st) ==
  LET parsed == svn_cl__args_to_target_array_print_reserved(rest, opt.targets)
      targets == svn_opt_push_implicit_dot_target(parsed)
      local == svn_cl__check_targets_are_local_paths(targets)
      depth == IF opt.depth = "unknown" THEN "infinity" ELSE opt.depth
      pegless == svn_cl__eat_peg_revisions(targets)
  IN IF Len(targets) = 0
     THEN {Outcome(InsufficientArgs, <<>>, cx, st)}
     ELSE IF local # SVN_NO_ERROR
     THEN {Outcome(local, <<>>, cx, st)}
     ELSE {Outcome(r.err,
                   (IF cx.log_msg_func3 THEN <<MakeLogMsgBaton>> ELSE <<>>)
                     \o <<ShelveCall(name, pegless, depth, opt.keep_local,
                                     opt.dry_run, cx.notify_func2, r.err)>>
                     \o (IF cx.log_msg_func3 THEN <<CleanupLogMsg(r.err)>> ELSE <<>>)
                     \o (IF r.err = SVN_NO_ERROR /\ ~opt.quiet
                         THEN <<PrintShelved(name)>> ELSE <<>>),
                   cx, r.store) :
             r \in svn_client_shelve(name, pegless, depth, opt.keep_local,
                                     opt.dry_run, st)}

\* a plausible slip: the --remove branch does not return and goes on to
\* shelve the remaining arguments
ShelveRemoveFallsThrough(args, opt, cx0, st) ==
  LET cx == IF opt.quiet THEN [cx0 EXCEPT !.notify_func2 = FALSE] ELSE cx0
      got == get_name(args)
  IN IF opt.list THEN ListBranch(args, opt, cx, st)
     ELSE IF got.err # SVN_NO_ERROR THEN {Outcome(got.err, <<>>, cx, st)}
     ELSE IF opt.remove
     THEN UNION {IF d.err # SVN_NO_ERROR THEN {d}
                 ELSE {Outcome(c.err, d.trace \o c.trace, c.ctx, c.store) :
                         c \in CreateBranch(got.name, got.rest, opt, cx, d.store)} :
                   d \in RemoveBranch(got.name, got.rest, opt, cx, st)}
     ELSE CreateBranch(got.name, got.rest, opt, cx, st)

svn_cl__shelve(args, opt, cx0, st) ==
  LET cx == IF opt.quiet THEN [cx0 EXCEPT !.notify_func2 = FALSE] ELSE cx0
      got == get_name(args)
  IN IF opt.list THEN ListBranch(args, opt, cx, st)
     ELSE IF got.err # SVN_NO_ERROR THEN {Outcome(got.err, <<>>, cx, st)}
     ELSE IF opt.remove THEN RemoveBranch(got.name, got.rest, opt, cx, st)
     ELSE CreateBranch(got.name, got.rest, opt, cx, st)

\* a plausible slip: the youngest shelf is selected without a word
ResolveNameWithoutNotice(args, st) ==
  IF Len(args) > 0
  THEN {[err |-> get_name(args).err, name |-> get_name(args).name,
         rest |-> get_name(args).rest, trace |-> <<>>]}
  ELSE {[err |-> r.err, name |-> r.name, rest |-> args, trace |-> r.trace] :
          r \in name_of_youngest(st)}

\* svn_cl__unshelve: the name, given or the youngest shelf's
ResolveName(args, st) ==
  IF Len(args) > 0
  THEN {[err |-> get_name(args).err, name |-> get_name(args).name,
         rest |-> get_name(args).rest, trace |-> <<>>]}
  ELSE {[err |-> r.err, name |-> r.name, rest |-> args,
         trace |-> r.trace \o (IF r.err = SVN_NO_ERROR
                               THEN <<PrintYoungest(r.name)>> ELSE <<>>)] :
          r \in name_of_youngest(st)}

\* a plausible slip: the arguments behind the name are not looked at
ApplyBranchIgnoresRest(n, opt, cx0, st) ==
  LET cx == IF opt.quiet THEN [cx0 EXCEPT !.notify_func2 = FALSE] ELSE cx0
  IN IF n.err # SVN_NO_ERROR
     THEN {Outcome(n.err, n.trace, cx0, st)}
     ELSE {Outcome(r.err,
                   n.trace
                     \o <<UnshelveCall(n.name, opt.keep_local, opt.dry_run,
                                       cx.notify_func2, r.err)>>
                     \o (IF r.err = SVN_NO_ERROR /\ ~opt.quiet
                         THEN <<PrintUnshelved(n.name)>> ELSE <<>>),
                   cx, r.store) :
             r \in svn_client_unshelve(n.name, opt.keep_local, opt.dry_run, st)}

\* a plausible slip: the "easy out" for --quiet leaves before the shelf is
\* applied
ApplyBranchQuietLeavesEarly(n, opt, cx0, st) ==
  LET targets == svn_cl__args_to_target_array_print_reserved(n.rest, opt.targets)
      cx == IF opt.quiet THEN [cx0 EXCEPT !.notify_func2 = FALSE] ELSE cx0
  IN IF n.err # SVN_NO_ERROR
     THEN {Outcome(n.err, n.trace, cx0, st)}
     ELSE IF Len(targets) > 0
     THEN {Outcome(ArgParsingError, n.trace, cx0, st)}
     ELSE IF opt.quiet
     THEN {Outcome(SVN_NO_ERROR, n.trace, cx, st)}
     ELSE {Outcome(r.err,
                   n.trace
                     \o <<UnshelveCall(n.name, opt.keep_local, opt.dry_run,
                                       cx.notify_func2, r.err)>>
                     \o <<PrintUnshelved(n.name)>>,
                   cx, r.store) :
             r \in svn_client_unshelve(n.name, opt.keep_local, opt.dry_run, st)}

\* svn_cl__unshelve from the check of the remaining arguments on
ApplyBranch(n, opt, cx0, st) ==
  LET targets == svn_cl__args_to_target_array_print_reserved(n.rest, opt.targets)
      cx == IF opt.quiet THEN [cx0 EXCEPT !.notify_func2 = FALSE] ELSE cx0
  IN IF n.err # SVN_NO_ERROR
     THEN {Outcome(n.err, n.trace, cx0, st)}
     ELSE IF Len(targets) > 0
     THEN {Outcome(ArgParsingError, n.trace, cx0, st)}
     ELSE {Outcome(r.err,
                   n.trace
                     \o <<UnshelveCall(n.name, opt.keep_local, opt.dry_run,
                                       cx.notify_func2, r.err)>>
                     \o (IF r.err = SVN_NO_ERROR /\ ~opt.quiet
                         THEN <<PrintUnshelved(n.name)>> ELSE <<>>),
                   cx, r.store) :
             r \in svn_client_unshelve(n.name, opt.keep_local, opt.dry_run, st)}

svn_cl__unshelve(args, opt, cx, st) ==
  IF opt.list THEN ListBranch(args, opt, cx, st)
  ELSE UNION {ApplyBranch(n, opt, cx, st) : n \in ResolveName(args, st)}

\* a plausible slip: the diffstat follows --quiet as in the list branches
ShelvesHonoursQuiet(args, opt, cx, st) ==
  IF Len(args) > 0
  THEN {Outcome(ArgParsingError, <<>>, cx, st)}
  ELSE {Outcome(r.err, r.trace, cx, st) : r \in shelves_list(st, ~opt.quiet)}

svn_cl__shelves(args, opt, cx, st) ==
  IF Len(args) > 0
  THEN {Outcome(ArgParsingError, <<>>, cx, st)}
  ELSE {Outcome(r.err, r.trace, cx, st) : r \in shelves_list(st, TRUE)}

(* ------------------------------ behaviour ----------------------------- *)

\* opt_state with no option given.  No subcommand of the three takes
\* --targets, so opt_state->targets stays empty.
NoOptions ==
  [list |-> FALSE, remove |-> FALSE, quiet |-> FALSE, dry_run |-> FALSE,
   keep_local |-> FALSE, depth |-> "unknown", targets |-> <<>>]

\* the client context main() hands to a subcommand
Contexts == [notify_func2 : {TRUE}, log_msg_func3 : BOOLEAN]
NoContext == [notify_func2 |-> TRUE, log_msg_func3 |-> FALSE]

\* the option states each subcommand's option table lets through
ShelveOptions ==
  {[NoOptions EXCEPT !.list = l, !.remove = r, !.quiet = q, !.dry_run = d,
                     !.keep_local = k, !.depth = dp] :
     l \in BOOLEAN, r \in BOOLEAN, q \in BOOLEAN, d \in BOOLEAN, k \in BOOLEAN,
     dp \in {"unknown", "files"}}

UnshelveOptions ==
  {[NoOptions EXCEPT !.list = l, !.quiet = q, !.dry_run = d, !.keep_local = k] :
     l \in BOOLEAN, q \in BOOLEAN, d \in BOOLEAN, k \in BOOLEAN}

ShelvesOptions == {[NoOptions EXCEPT !.quiet = q] : q \in BOOLEAN}

EmptyStore == [k \in {} |-> 0]

Init ==
  /\ pc = "idle"
  /\ store = EmptyStore
  /\ store0 = EmptyStore
  /\ cmd = "none"
  /\ os_args = <<>>
  /\ opt_state = NoOptions
  /\ ctx = NoContext
  /\ trace = <<>>
  /\ err = SVN_NO_ERROR

Run(c, args, opt, r) ==
  /\ pc' = "done"
  /\ cmd' = c
  /\ os_args' = args
  /\ opt_state' = opt
  /\ store0' = store
  /\ store' = r.store
  /\ ctx' = r.ctx
  /\ trace' = r.trace
  /\ err' = r.err

Shelve ==
  /\ pc = "idle"
  /\ \E args \in SeqsUpTo(ArgVals, MaxArgs), opt \in ShelveOptions, cx \in Contexts :
       \E r \in svn_cl__shelve(args, opt, cx, store) : Run("shelve", args, opt, r)

Unshelve ==
  /\ pc = "idle"
  /\ \E args \in SeqsUpTo(ArgVals, MaxArgs), opt \in UnshelveOptions, cx \in Contexts :
       \E r \in svn_cl__unshelve(args, opt, cx, store) : Run("unshelve", args, opt, r)

Shelves ==
  /\ pc = "idle"
  /\ \E args \in SeqsUpTo(ArgVals, MaxArgs), opt \in ShelvesOptions, cx \in Contexts :
       \E r \in svn_cl__shelves(args, opt, cx, store) : Run("shelves", args, opt, r)

\* the process ends; only the store outlives it
Exit ==
  /\ pc = "done"
  /\ pc' = "idle"
  /\ store0' = store
  /\ cmd' = "none"
  /\ os_args' = <<>>
  /\ opt_state' = NoOptions
  /\ ctx' = NoContext
  /\ trace' = <<>>
  /\ err' = SVN_NO_ERROR
  /\ UNCHANGED store

Next == Shelve \/ Unshelve \/ Shelves \/ Exit

Spec == Init /\ [][Next]_vars

(* ------------------------------- claims -------------------------------- *)

Done(c) == pc = "done" /\ cmd = c

CallsOf(tr, ops) == SelectSeq(tr, LAMBDA e : e.op \in ops)

\* the invocation asked the store for its shelves and got them
Listed == Len(trace) >= 1 /\ trace[1].op = "svn_client_shelves_list" /\ trace[1].ok

MaxMtime(items) ==
  CHOOSE m \in {items[i].mtime : i \in 1..Len(items)} :
    \A i \in 1..Len(items) : items[i].mtime <= m

\* svn_cl__unshelve was run without --list and without a name
YoungestAsked == Done("unshelve") /\ ~opt_state.list /\ os_args = <<>>

\* C1: svn shelve <name> with neither --list nor --remove and no target path
\* fails with the "insufficient arguments" error and makes no call into the
\* store.
C1_NoTargetsFailsWithoutStoreCall ==
  (Done("shelve") /\ ~opt_state.list /\ ~opt_state.remove /\ Len(os_args) = 1)
    => /\ err = InsufficientArgs
       /\ CallsOf(trace, StoreOps) = <<>>

\* C2: when the store returns a non-empty set, the name name_of_youngest
\* resolves belongs to a record of the greatest modification time of the
\* set; when it returns the empty set, the command fails with "No shelved
\* changes found" and does nothing else.
C2_YoungestHasMaxMtime ==
  (YoungestAsked /\ Listed)
    => IF trace[1].items = <<>>
       THEN err = NoShelvesFound /\ Len(trace) = 1
       ELSE /\ Len(trace) >= 2
            /\ trace[2].op = "print_youngest"
            /\ \E i \in 1..Len(trace[1].items) :
                 /\ trace[1].items[i].key = KeyOf(trace[2].name)
                 /\ trace[1].items[i].mtime = MaxMtime(trace[1].items)

\* the youngest shelf is resolved from a hash that iterates it first
C2_Witness ==
  /\ YoungestAsked /\ Listed
  /\ Len(trace[1].items) >= 2
  /\ trace[1].items[1].mtime > trace[1].items[2].mtime
  /\ trace[2].op = "print_youngest"
  /\ trace[2].name = NameA

\* C3: the entries a listing prints are the entries the store returned, in
\* an order of non-decreasing modification time.
C3_ListingOldestFirst ==
  (pc = "done" /\ Listed /\ ~YoungestAsked)
    => LET printed == CallsOf(trace, {"print_item"})
       IN /\ Len(printed) = Len(trace[1].items)
          /\ {[key |-> printed[i].name, mtime |-> printed[i].mtime] :
                i \in 1..Len(printed)}
               = {trace[1].items[i] : i \in 1..Len(trace[1].items)}
          /\ \A i, j \in 1..Len(printed) :
               i < j => printed[i].mtime <= printed[j].mtime

\* a listing of three shelves that the hash iterates youngest first
C3_Witness ==
  /\ pc = "done" /\ Listed /\ ~YoungestAsked
  /\ Len(trace[1].items) = 3
  /\ trace[1].items[1].mtime > trace[1].items[2].mtime
  /\ Len(CallsOf(trace, {"print_item"})) = 3

\* C4, as claimed: the name name_of_youngest resolves never contains
\* ".patch".
C4_NameNeverContainsSuffix ==
  (YoungestAsked /\ Listed)
    => \A i \in 1..Len(trace) :
         trace[i].op = "print_youngest" => ~Contains(trace[i].name, PatchSuffix)

\* C4, amended: the name name_of_youngest resolves is the stored key of a
\* returned record without its last six characters, the one trailing
\* ".patch": key "a.patch" gives "a", key "a.patch.patch" gives "a.patch".
C4_NameIsKeyWithoutOneSuffix ==
  (YoungestAsked /\ Listed)
    => \A i \in 1..Len(trace) :
         trace[i].op = "print_youngest"
           => \E j \in 1..Len(trace[1].items) :
                /\ trace[1].items[j].key = trace[i].name \o PatchSuffix
                /\ Len(trace[i].name) = Len(trace[1].items[j].key) - Len(PatchSuffix)

\* the youngest shelf is the only one, stored under "a.patch"
C4_Witness ==
  /\ YoungestAsked /\ Listed
  /\ Len(trace[1].items) = 1
  /\ trace[1].items[1].key = KeyOf(NameA)
  /\ Len(trace) >= 2 /\ trace[2] = PrintYoungest(NameA)

\* C5, as claimed: an invocation that fails has printed nothing.
C5_FailurePrintsNothing ==
  (pc = "done" /\ err # SVN_NO_ERROR) => CallsOf(trace, PrintOps) = <<>>

\* C5, amended: an invocation that fails prints no confirmation and no
\* listing entry; the one line it can have printed is the notice of the
\* selected shelf, which svn unshelve without a name prints once the name is
\* resolved and before the shelf is applied.  An invocation that succeeds
\* without --list and without --quiet prints its confirmation last.
C5_FailurePrintsAtMostTheNotice ==
  /\ (pc = "done" /\ err # SVN_NO_ERROR)
       => /\ CallsOf(trace, PrintOps \ {"print_youngest"}) = <<>>
          /\ CallsOf(trace, {"print_youngest"}) # <<>> => YoungestAsked
  /\ (pc = "done" /\ err = SVN_NO_ERROR /\ cmd \in {"shelve", "unshelve"}
        /\ ~opt_state.list /\ ~opt_state.quiet)
       => trace[Len(trace)].op \in ConfirmationOps

\* svn unshelve without a name fails in the store after the notice
C5_Witness ==
  /\ YoungestAsked /\ err = StoreError
  /\ Len(trace) = 3
  /\ trace[2].op = "print_youngest"
  /\ trace[3].op = "svn_client_unshelve" /\ ~trace[3].ok
\* the handler of a subcommand
Handler(c, args, opt, cx, st) ==
  IF c = "shelve" THEN svn_cl__shelve(args, opt, cx, st)
  ELSE IF c = "unshelve" THEN svn_cl__unshelve(args, opt, cx, st)
  ELSE svn_cl__shelves(args, opt, cx, st)

\* a call into the store without what the store answered and without the
\* notification callback
Request(e) == [e EXCEPT !.notify = FALSE, !.ok = TRUE, !.items = <<>>]
Requests(tr) ==
  LET calls == CallsOf(tr, StoreOps) IN [i \in 1..Len(calls) |-> Request(calls[i])]

\* the store answers the same to the same call in both invocations
SameStoreBehaviour(a, b) ==
  LET ca == CallsOf(a.trace, StoreOps)
      cb == CallsOf(b.trace, StoreOps)
  IN /\ \A i \in 1..Min(Len(ca), Len(cb)) :
          Request(ca[i]) = Request(cb[i])
            => ca[i].ok = cb[i].ok /\ ca[i].items = cb[i].items
     /\ Requests(a.trace) = Requests(b.trace) => a.store = b.store

\* the outcomes of the same invocation, from the same store, with --quiet
\* the other way round
QuietTwins ==
  Handler(cmd, os_args, [opt_state EXCEPT !.quiet = ~opt_state.quiet],
          [ctx EXCEPT !.notify_func2 = TRUE], store0)

C7_NoticeThenApply ==
  /\ (YoungestAsked /\ Listed /\ trace[1].items # <<>>)
       => /\ Len(trace) >= 3
          /\ trace[2].op = "print_youngest"
          /\ trace[3].op = "svn_client_unshelve"
          /\ trace[3].name = trace[2].name
          /\ Len(CallsOf(trace, {"svn_client_unshelve"})) = 1
          /\ Len(CallsOf(trace, {"svn_client_shelves_list"})) = 1
  /\ (Done("unshelve") /\ ~opt_state.list /\ Len(os_args) >= 1)
       => /\ CallsOf(trace, {"svn_client_shelves_list", "print_youngest"}) = <<>>
          /\ \A i \in 1..Len(trace) :
               trace[i].op = "svn_client_unshelve" => trace[i].name = os_args[1]
          /\ Len(os_args) = 1 => Len(CallsOf(trace, {"svn_client_unshelve"})) = 1

\* svn unshelve without a name applied the younger of two shelves
C7_Witness ==
  /\ YoungestAsked /\ Listed /\ Len(trace[1].items) = 2
  /\ err = SVN_NO_ERROR
  /\ trace[2] = PrintYoungest(NameB)
  /\ trace[3].op = "svn_client_unshelve" /\ trace[3].name = NameB

\* the invocation lists: svn shelve --list, svn unshelve --list, svn shelves
ListingMode == pc = "done" /\ (cmd = "shelves" \/ opt_state.list)

\* C8: a listing invocation with an argument behind the subcommand fails
\* with the argument parsing error and has not asked the store for anything.
C8_ListingRejectsArguments ==
  (ListingMode /\ Len(os_args) >= 1)
    => err = ArgParsingError /\ trace = <<>>

\* svn shelve --list with an argument, over a store that has a shelf
C8_Witness ==
  /\ Done("shelve") /\ opt_state.list /\ Len(os_args) = 1
  /\ err = ArgParsingError
  /\ DOMAIN store # {}

\* C9: svn unshelve with a name and a further argument fails with the
\* argument parsing error and does not call svn_client_unshelve.
C9_UnshelveRejectsTrailingArguments ==
  (Done("unshelve") /\ ~opt_state.list /\ Len(os_args) >= 2)
    => /\ err = ArgParsingError
       /\ CallsOf(trace, StoreOps) = <<>>

\* svn unshelve a b, with a shelf "a" in the store
C9_Witness ==
  /\ Done("unshelve") /\ ~opt_state.list
  /\ os_args = <<NameA, NameB>>
  /\ KeyOf(NameA) \in DOMAIN store
  /\ err = ArgParsingError

\* the errors of the command line's own checks
ValidationCodes == {"SVN_ERR_CL_ARG_PARSING_ERROR", "SVN_ERR_CL_INSUFFICIENT_ARGS"}

\* C10: an invocation of svn shelve or svn unshelve calls at most one of
\* svn_client_shelve, svn_client_shelves_delete and svn_client_unshelve, and
\* that at most once; it calls none when one of its own checks fails, and
\* exactly one when it succeeds without --list; the store changes only in
\* such a call that succeeded.
C10_AtMostOneMutation ==
  (pc = "done" /\ cmd \in {"shelve", "unshelve"})
    => LET mutations == CallsOf(trace, MutatingOps)
       IN /\ Len(mutations) <= 1
          /\ err.code \in ValidationCodes => mutations = <<>>
          /\ (err = SVN_NO_ERROR /\ ~opt_state.list) => Len(mutations) = 1
          /\ store # store0 => Len(mutations) = 1 /\ mutations[1].ok

\* svn shelve --remove a target: the check fails, the shelf stays
C10_Witness ==
  /\ Done("shelve") /\ opt_state.remove /\ ~opt_state.list
  /\ os_args = <<NameA, NameB>>
  /\ err = ArgParsingError
  /\ KeyOf(NameA) \in DOMAIN store
  /\ trace = <<>>

\* the store call a confirmation line reports
CallConfirmedBy(op) ==
  IF op = "print_deleted" THEN "svn_client_shelves_delete"
  ELSE IF op = "print_shelved" THEN "svn_client_shelve"
  ELSE "svn_client_unshelve"

\* C11: an invocation prints "deleted", "shelved" or "unshelved" exactly
\* when it called svn_client_shelves_delete, svn_client_shelve or
\* svn_client_unshelve, the call returned no error and --quiet is not set;
\* the line comes after the call and names the shelf the call was given.
C11_ConfirmationIffStoreSuccess ==
  pc = "done"
    => \A p \in ConfirmationOps :
         LET lines == CallsOf(trace, {p})
             calls == CallsOf(trace, {CallConfirmedBy(p)})
         IN /\ lines # <<>> <=> (calls # <<>> /\ calls[1].ok /\ ~opt_state.quiet)
            /\ Len(lines) <= 1
            /\ lines # <<>>
                 => /\ lines[1].name = calls[1].name
                    /\ trace[Len(trace)] = lines[1]
                    /\ \E i \in 1..(Len(trace) - 1) : trace[i] = calls[1]

\* svn shelve a b stored the shelf and said so
C11_Witness ==
  /\ Done("shelve") /\ ~opt_state.quiet /\ err = SVN_NO_ERROR
  /\ os_args = <<NameA, NameB>>
  /\ store # store0
  /\ trace[Len(trace)] = PrintShelved(NameA)

\* svn shelve --remove without --list
RemoveAsked == Done("shelve") /\ opt_state.remove /\ ~opt_state.list

\* C12: svn shelve --remove never calls svn_client_shelve; it calls
\* svn_client_shelves_delete, once, with the name given and the --dry-run
\* flag, exactly when one positional argument is given; with arguments
\* behind the name it fails with the argument parsing error and calls
\* nothing.
C12_RemoveDeletesOnce ==
  RemoveAsked
    => LET deletes == CallsOf(trace, {"svn_client_shelves_delete"})
       IN /\ CallsOf(trace, {"svn_client_shelve"}) = <<>>
          /\ Len(os_args) = 1 <=> deletes # <<>>
          /\ deletes # <<>>
               => /\ Len(deletes) = 1
                  /\ deletes[1].name = os_args[1]
                  /\ deletes[1].dry_run = opt_state.dry_run
                  /\ CallsOf(trace, StoreOps) = deletes
          /\ Len(os_args) >= 2 => err = ArgParsingError /\ trace = <<>>

\* a dry run of svn shelve --remove a: the call is made, the shelf stays
C12_Witness ==
  /\ RemoveAsked /\ opt_state.dry_run /\ os_args = <<NameA>>
  /\ err = SVN_NO_ERROR
  /\ trace[1].op = "svn_client_shelves_delete" /\ trace[1].dry_run
  /\ KeyOf(NameA) \in DOMAIN store

\* the listing entries of a trace
Printed(tr) == CallsOf(tr, {"print_item"})

\* C13: a listing prints the same sequence as every other listing of a store
\* of the same contents, whatever the order in which the store's hash is
\* iterated, entries of equal modification time included.
C13_ListingIsDeterministic ==
  (ListingMode /\ Listed)
    => \A t \in Handler(cmd, os_args, opt_state,
                        [ctx EXCEPT !.notify_func2 = TRUE], store0) :
         t.err = SVN_NO_ERROR => Printed(t.trace) = Printed(trace)

\* C14: svn shelves without arguments lists every entry with its diffstat,
\* with --quiet too; svn shelve --list and svn unshelve --list show the
\* diffstat exactly when --quiet is not set.
C14_ShelvesAlwaysDiffstat ==
  (ListingMode /\ Listed)
    => /\ Len(Printed(trace)) = Len(trace[1].items)
       /\ \A i \in 1..Len(Printed(trace)) :
            Printed(trace)[i].diffstat
              = (IF cmd = "shelves" THEN TRUE ELSE ~opt_state.quiet)

\* a quiet svn shelves that listed a shelf with its diffstat
C14_Witness ==
  /\ Done("shelves") /\ opt_state.quiet /\ os_args = <<>> /\ Listed
  /\ Len(trace) = 2
  /\ trace[2].op = "print_item" /\ trace[2].diffstat

\* svn shelve without --list and without --remove
CreateAsked == Done("shelve") /\ ~opt_state.list /\ ~opt_state.remove

\* C15: in svn shelve, when ctx->log_msg_func3 is set, svn_client_shelve is
\* called with the log message baton made right before it and
\* svn_cl__cleanup_log_msg is called right after it with its result, whether
\* it failed or not; when log_msg_func3 is not set, no baton is made.
C15_LogMsgBatonReleased ==
  Done("shelve")
    => /\ \A i \in 1..Len(trace) :
            (trace[i].op = "svn_client_shelve" /\ ctx.log_msg_func3)
              => /\ i > 1 /\ trace[i - 1] = MakeLogMsgBaton
                 /\ i < Len(trace) /\ trace[i + 1] = CleanupLogMsg(err)
                 /\ trace[i + 1].ok = trace[i].ok
       /\ Len(CallsOf(trace, {"svn_cl__make_log_msg_baton"}))
            = Len(CallsOf(trace, {"svn_cl__cleanup_log_msg"}))
       /\ ~ctx.log_msg_func3 => CallsOf(trace, {"svn_cl__make_log_msg_baton"}) = <<>>

\* svn_client_shelve failed with the baton made, and the baton was released
C15_Witness ==
  /\ CreateAsked /\ ctx.log_msg_func3 /\ err = StoreError
  /\ Len(trace) = 3
  /\ trace[2].op = "svn_client_shelve" /\ ~trace[2].ok
  /\ trace[3].op = "svn_cl__cleanup_log_msg"

\* C16: svn shelve without --list and without a positional argument fails,
\* with --remove and without, and calls nothing; with positional arguments
\* every call of svn_client_shelves_delete or svn_client_shelve is given the
\* first of them as the name.
C16_FirstArgumentIsTheName ==
  (Done("shelve") /\ ~opt_state.list)
    => /\ os_args = <<>> => err = InsufficientArgs /\ trace = <<>>
       /\ \A i \in 1..Len(trace) :
            trace[i].op \in {"svn_client_shelves_delete", "svn_client_shelve"}
              => Len(os_args) >= 1 /\ trace[i].name = os_args[1]

\* svn shelve b a: the shelf is b, a is the target
C16_Witness ==
  /\ CreateAsked /\ os_args = <<NameB, NameA>>
  /\ err = SVN_NO_ERROR
  /\ \E i \in 1..Len(trace) :
       /\ trace[i].op = "svn_client_shelve"
       /\ trace[i].name = NameB /\ trace[i].targets = <<NameA>>
  /\ KeyOf(NameB) \in DOMAIN store

\* C17: svn shelve with a URL among its targets fails with the "not a local
\* path" error and does not call svn_client_shelve, nor anything else.
C17_UrlTargetRejected ==
  (CreateAsked /\ \E i \in 2..Len(os_args) : svn_path_is_url(os_args[i]))
    => err = NotLocalPath /\ trace = <<>>

\* svn shelve a u://h
C17_Witness ==
  /\ CreateAsked /\ os_args = <<NameA, UrlArg>>
  /\ err = NotLocalPath /\ trace = <<>>

\* C18: the name svn unshelve resolves without a name argument is, suffix
\* removed, the key of the last entry of every listing of the store the
\* invocation found, entries of equal modification time included.
C18_YoungestIsLastListed ==
  (YoungestAsked /\ Listed /\ trace[1].items # <<>>)
    => \A l \in list_sorted_by_date(store0) :
         l.err = SVN_NO_ERROR
           => l.list[Len(l.list)].key = trace[2].name \o PatchSuffix

====
